---- MODULE Spec2Model ----
(***************************************************************************)
(* kaps: a minimal OCI container runtime and image manager.                *)
(*                                                                         *)
(* The two main state machines of this module (SpecCrash adds a crash in   *)
(* the middle of State::save to SpecImg; SpecCfg, SpecState, SpecNs,       *)
(* SpecCg and SpecEnv exercise single units):                              *)
(*   SpecRun  the Launcher (Container::new, Container::run), the cgroup    *)
(*            controllers, the mount preparer and the container state      *)
(*            directory under /var/run/kaps/containers;                    *)
(*   SpecImg  the Image Manager (pull, mount), the Puller's concurrent     *)
(*            layer tasks, the State Store and its state.json file.        *)
(***************************************************************************)
EXTENDS Integers, Sequences, FiniteSets, TLC

VARIABLES
    \* ---- Launcher ----
    cgroups,        \* kaps cgroup directories that exist on the host
    hostMounts,     \* host mount table under rootfs: source -> stacked mounts
    dirs,           \* <root>/<id>/state.json per container id, or Absent
    container,      \* the Container object of this process, or NoContainer
    pc,             \* position of Container::run
    child,          \* the child process of the current run
    code,           \* exit code collected by wait
    result,         \* value returned by the last Container::run
    newRes,         \* value returned by the last Container::new
    spawned,        \* the current run got past spawn()
    applied,        \* mounts that Mounts::apply made in the child of this run
    mountsBefore,   \* host mount table when the current run was entered
    steps,          \* teardown steps that the current run has executed, in order
    umounts,        \* umount commands run by Mounts::cleanup in the current run
    \* ---- Image manager ----
    state,          \* ImageManager.state: images, layers, index
    stateFile,      \* <data>/state.json, a sequence of tokens
    layerDirs,      \* images/layers/<digest>: "none", "partial" or "full"
    ipc,            \* position of ImageManager::pull
    pull,           \* the pull in flight: reference, image id
    tasks,          \* the layer tasks of the pull in flight: their position,
                    \* their result, whether they unpacked the archive
    completed,      \* the layer tasks of the last pull, in completion order
    before,         \* the State when the pull in flight, or the last pull that
                    \* failed in pull_layers, was called
    pullRes,        \* value returned by the last pull
    fetched,        \* layer blobs fetched from the registry by the last pull
    mountLog,       \* snapshot indexes of the successful mounts of this manager
    scratch,        \* snapshot indexes whose scratch directories exist
    mountRes,       \* value returned by the last mount
    overlay,        \* the overlay mount issued by the last mount, if any
    saved,          \* the State written by the last save that returned Ok
    loaded,         \* the manager has just been built from the state file
    managerRes,     \* value returned by the last ImageManager::new
    ops,            \* calls of pull and mount made so far
    \* ---- Runtime spec builder ----
    imageConfig,    \* the argument of the call of new_runtime_config, if any
    runtimeSpec,    \* the Spec that the call returned
    \* ---- Container state, called on its own ----
    statusRes,      \* value returned by the last set_status or remove
    \* ---- Namespace translator ----
    linuxNamespaces,    \* the linux.namespaces of the call, if any
    unshareSet,         \* the translator called and the list it returned
    \* ---- Cgroup controllers, apply on its own ----
    limits,         \* the controller and the limits record of the call, if any
    cgroupFs,       \* the files of the kaps cgroup, the writes, the tasks
    \* ---- Environment ----
    envProcess,     \* the spec.process() of the call of Environment::from
    environment     \* what the call returned, or that it panicked

runVars == <<cgroups, hostMounts, dirs, container, pc, child, code, result,
             newRes, spawned, applied, mountsBefore, steps, umounts>>

imgVars == <<state, stateFile, layerDirs, ipc, pull, tasks, completed, before,
             pullRes,
             fetched,
             mountLog, scratch, mountRes, overlay, saved, loaded,
             managerRes, ops>>

cfgVars == <<imageConfig, runtimeSpec>>

stVars == <<statusRes>>

\* the variables of the operations that are exercised on their own
nsVars == <<linuxNamespaces, unshareSet>>

cgVars == <<limits, cgroupFs>>

envVars == <<envProcess, environment>>

unitVars == <<cfgVars, stVars, nsVars, cgVars, envVars>>

vars == <<runVars, imgVars, unitVars>>

-----------------------------------------------------------------------------
(* Bounds *)

\* exit codes of the child range over 0..MaxExit
MaxExit == 1

\* the image manager receives at most MaxOps calls of pull and mount, the
\* calls that advance the snapshot index or grow the state file
MaxOps == 3

\* entrypoint and cmd of an image configuration hold at most MaxArgs words
MaxArgs == 1

\* longest linux.namespaces list given to the namespace translator
MaxNs == 3

\* largest value of a field of a limits record
MaxLimit == 1

\* longest entry of process.env, in characters
MaxEnvLen == 3

\* longest process.env list
MaxEnv == 2

-----------------------------------------------------------------------------
(* Launcher: constants of the program *)

\* Option values: None is the empty tuple, Some(x) the one-element tuple
None == <<>>

Some(x) == <<x>>

Absent == None

NoContainer == None

ContainerIds == {"a", "b"}

Bundles == {"b1", "b2"}

\* the pid reported by the spawned child (never 0)
ChildPid == 7

CgroupKinds == {"cpu", "memory"}

\* Mounts::default(): the sources of the three pseudo-filesystems, in order
DefaultMounts == <<"dev", "proc", "sys">>

NoMounts == [s \in {"dev", "proc", "sys"} |-> 0]

-----------------------------------------------------------------------------
(* Mount preparer *)

\* Mounts::apply run by the child before exec: the first k mount commands
\* succeed (k = 3: all of them); the mounts land in table m.
RECURSIVE apply(_, _, _)
apply(m, i, k) ==
    IF i > Len(DefaultMounts) \/ i > k THEN m
    ELSE apply([m EXCEPT ![DefaultMounts[i]] = @ + 1], i + 1, k)

\* cleanup that unmounts the first mount of the list and stops
cleanup_onlyFirst(m, i) ==
    IF m[DefaultMounts[i]] = 0
      THEN [mounts |-> m, res |-> "Unmount", attempts |-> i]
    ELSE [mounts |-> [m EXCEPT ![DefaultMounts[i]] = @ - 1], res |-> "Ok",
          attempts |-> i]

\* cleanup that reports the failure of the first umount without having
\* unmounted anything
cleanup_noUmount(m, i) == [mounts |-> m, res |-> "Unmount", attempts |-> i]

\* Mounts::cleanup: umount rootfs/<source> for each mount in order; the first
\* umount that exits non-zero (nothing mounted there) ends the loop with
\* Err(Unmount).  attempts counts the umount commands that were run.
RECURSIVE cleanup(_, _)
cleanup(m, i) ==
    IF i > Len(DefaultMounts)
      THEN [mounts |-> m, res |-> "Ok", attempts |-> i - 1]
    ELSE IF m[DefaultMounts[i]] = 0
      THEN [mounts |-> m, res |-> "Unmount", attempts |-> i]
    ELSE cleanup([m EXCEPT ![DefaultMounts[i]] = @ - 1], i + 1)

-----------------------------------------------------------------------------
(* Container state *)

\* a state.json that was created or truncated and holds no document
EmptyJson == [status |-> "", pid |-> 0, bundle |-> ""]

\* the state.json written by ContainerState::save
StateJson(c) == [status |-> c.status, pid |-> c.pid, bundle |-> c.bundle]

\* ContainerState::_new without the existence test: the directory is reused
\* and state.json is rewritten
ContainerState_new_noCheck(d, id, bundle, fail) ==
    LET st == [status |-> "creating", pid |-> 0, bundle |-> bundle]
    IN IF fail = "mkdir"
         THEN [res |-> <<"CreateStateFile">>, dirs |-> d, state |-> None]
       ELSE IF fail = "write"
         THEN [res |-> <<"WriteStateFile">>,
               dirs |-> [d EXCEPT ![id] = Some(EmptyJson)], state |-> None]
       ELSE [res |-> <<"Ok">>, dirs |-> [d EXCEPT ![id] = Some(st)],
             state |-> Some(st)]

\* ContainerState::_new that records the status created
ContainerState_new_created(d, id, bundle, fail) ==
    LET st == [status |-> "created", pid |-> 0, bundle |-> bundle]
    IN IF d[id] # Absent
         THEN [res |-> <<"ContainerExists", id>>, dirs |-> d, state |-> None]
       ELSE IF fail = "mkdir"
         THEN [res |-> <<"CreateStateFile">>, dirs |-> d, state |-> None]
       ELSE IF fail = "write"
         THEN [res |-> <<"WriteStateFile">>,
               dirs |-> [d EXCEPT ![id] = Some(EmptyJson)], state |-> None]
       ELSE [res |-> <<"Ok">>, dirs |-> [d EXCEPT ![id] = Some(st)],
             state |-> Some(st)]

\* ContainerState::_new against the directory table d: the result, the new
\* table and the in-memory state.  An existing <root>/<id> is refused before
\* anything is created; fail names the file operation that fails, if any.
ContainerState_new(d, id, bundle, fail) ==
    LET st == [status |-> "creating", pid |-> 0, bundle |-> bundle]
    IN IF d[id] # Absent
         THEN [res |-> <<"ContainerExists", id>>, dirs |-> d, state |-> None]
       ELSE IF fail = "mkdir"
         THEN [res |-> <<"CreateStateFile">>, dirs |-> d, state |-> None]
       ELSE IF fail = "write"
         THEN [res |-> <<"WriteStateFile">>,
               dirs |-> [d EXCEPT ![id] = Some(EmptyJson)], state |-> None]
       ELSE [res |-> <<"Ok">>, dirs |-> [d EXCEPT ![id] = Some(st)],
             state |-> Some(st)]

\* ContainerState::save of the in-memory state c: state.json is opened for
\* writing with truncation and must exist; a failed write leaves it empty.
save(c, d, writeOk) ==
    IF d[c.id] = Absent THEN [res |-> <<"OpenStateFile">>, dirs |-> d]
    ELSE IF ~writeOk
      THEN [res |-> <<"WriteStateFile">>,
            dirs |-> [d EXCEPT ![c.id] = Some(EmptyJson)]]
    ELSE [res |-> <<"Ok">>, dirs |-> [d EXCEPT ![c.id] = Some(StateJson(c))]]

\* set_status that changes the in-memory status and does not save
set_status_noSave(c, d, s, writeOk) ==
    [res |-> <<"Ok">>, dirs |-> d, state |-> [c EXCEPT !.status = s]]

\* ContainerState::_set_status: the in-memory status is replaced under the
\* write lock, then the state is saved
set_status(c, d, s, writeOk) ==
    LET c1 == [c EXCEPT !.status = s]
        r == save(c1, d, writeOk)
    IN [res |-> r.res, dirs |-> r.dirs, state |-> c1]

\* Container::new that creates the container state before it loads the spec
Container_new_stateFirst(id, bundle, ns, fail) ==
    /\ pc \in {"idle", "returned"}
    /\ LET r == ContainerState_new(dirs, id, bundle,
                                   IF fail = "spec" THEN "none" ELSE fail)
       IN /\ dirs' = r.dirs
          /\ newRes' = IF r.res = <<"Ok">> /\ fail = "spec"
                         THEN <<"OCISpecificationLoad">> ELSE r.res
          /\ IF r.state = None \/ fail = "spec"
               THEN UNCHANGED container
               ELSE container' =
                      Some([id |-> id, bundle |-> bundle, nsMount |-> ns,
                            status |-> r.state[1].status,
                            pid |-> r.state[1].pid])
    /\ pc' = "idle"
    /\ UNCHANGED <<cgroups, hostMounts, child, code, result, spawned,
                   applied, mountsBefore, umounts, steps, imgVars, unitVars>>

\* Container::new: load the spec, then ContainerState::new
Container_new(id, bundle, ns, fail) ==
    /\ pc \in {"idle", "returned"}
    /\ IF fail = "spec"
         THEN /\ newRes' = <<"OCISpecificationLoad">>
              /\ UNCHANGED <<dirs, container>>
         ELSE LET r == ContainerState_new(dirs, id, bundle, fail)
              IN /\ newRes' = r.res
                 /\ dirs' = r.dirs
                 /\ IF r.state = None
                      THEN UNCHANGED container
                      ELSE container' =
                             Some([id |-> id, bundle |-> bundle,
                                   nsMount |-> ns,
                                   status |-> r.state[1].status,
                                   pid |-> r.state[1].pid])
    /\ pc' = "idle"
    /\ UNCHANGED <<cgroups, hostMounts, child, code, result, spawned,
                   applied, mountsBefore, umounts, steps, imgVars, unitVars>>

NewContainer ==
    \E id \in ContainerIds, bundle \in Bundles, ns \in BOOLEAN,
       fail \in {"none", "spec", "mkdir", "write"} :
        Container_new(id, bundle, ns, fail)

-----------------------------------------------------------------------------
(* Launcher: Container::run, one action per step *)

\* lib.rs 134-144: Cpu::new(), Memory::new() and the two apply calls.  The
\* cgroup directory is created with create().unwrap(): an existing directory
\* or any other failure panics.
Run_Cgroups(fail) ==
    /\ container # NoContainer
    /\ pc \in {"idle", "returned"}
    /\ mountsBefore' = hostMounts
    /\ umounts' = 0
    /\ spawned' = FALSE
    /\ applied' = 0
    /\ child' = "none"
    /\ code' = None
    /\ result' = None
    /\ steps' = <<>>
    /\ IF "cpu" \in cgroups \/ fail = "cpu"
         THEN /\ pc' = "panicked"
              /\ UNCHANGED cgroups
         ELSE IF "memory" \in cgroups \/ fail = "memory"
         THEN /\ pc' = "panicked"
              /\ cgroups' = cgroups \cup {"cpu"}
         ELSE /\ pc' = "spawn"
              /\ cgroups' = cgroups \cup {"cpu", "memory"}
    /\ UNCHANGED <<hostMounts, dirs, container, newRes, imgVars, unitVars>>

\* lib.rs 146-158: spawn.  The child chroots, unshares, runs Mounts::apply
\* (k of the three mounts succeed) and execs.  With a mount namespace the
\* child's mounts are private to it; without one they land in the host table.
\* On failure run returns whatever cleanup returns.
Run_Spawn(k, execOk) ==
    /\ pc = "spawn"
    /\ applied' = k
    /\ LET mounted == IF container[1].nsMount THEN hostMounts
                      ELSE apply(hostMounts, 1, k)
           ok == k = Len(DefaultMounts) /\ execOk
           cl == cleanup(mounted, 1)
       IN IF ok
            THEN /\ hostMounts' = mounted
                 /\ child' = "running"
                 /\ spawned' = TRUE
                 /\ pc' = "spawned"
                 /\ UNCHANGED <<result, umounts>>
            ELSE /\ hostMounts' = cl.mounts
                 /\ umounts' = cl.attempts
                 /\ result' = <<cl.res>>
                 /\ pc' = "returned"
                 /\ UNCHANGED <<child, spawned>>
    /\ UNCHANGED <<cgroups, dirs, container, code, newRes, mountsBefore,
                   steps, imgVars, unitVars>>

\* lib.rs 160-161: record the pid and set_status(Running), which rewrites
\* state.json; the file must already exist (open without create).
Run_SetStatus(writeOk) ==
    /\ pc = "spawned"
    /\ LET c == [container[1] EXCEPT !.pid = ChildPid]
           r == set_status(c, dirs, "running", writeOk)
       IN /\ container' = Some(r.state)
          /\ dirs' = r.dirs
          /\ IF r.res = <<"Ok">>
               THEN pc' = "wait" /\ UNCHANGED result
               ELSE pc' = "returned" /\ result' = r.res
    /\ UNCHANGED <<cgroups, hostMounts, child, code, newRes, spawned,
                   applied, mountsBefore, umounts, steps, imgVars, unitVars>>

\* child.wait()
Run_Wait(waitOk, exit) ==
    /\ pc = "wait"
    /\ IF waitOk
         THEN /\ child' = "reaped"
              /\ steps' = Append(steps, "reap")
              /\ code' = exit
              /\ pc' = "cgroups"
              /\ UNCHANGED result
         ELSE /\ child' = "lost"
              /\ result' = <<"ContainerWaitCommand">>
              /\ pc' = "returned"
              /\ UNCHANGED <<code, steps>>
    /\ UNCHANGED <<cgroups, hostMounts, dirs, container, newRes, spawned,
                   applied, mountsBefore, umounts, imgVars, unitVars>>

\* lib.rs 166-167 with Cpu::delete and Memory::delete: detach the pid and
\* remove the cgroup directory; both results are unwrapped.
Run_DeleteCgroups(fail) ==
    /\ pc = "cgroups"
    /\ steps' = Append(steps, "cgroups")
    /\ IF fail = "cpu" \/ "cpu" \notin cgroups
         THEN /\ pc' = "panicked"
              /\ UNCHANGED cgroups
         ELSE IF fail = "memory" \/ "memory" \notin cgroups
         THEN /\ pc' = "panicked"
              /\ cgroups' = cgroups \ {"cpu"}
         ELSE /\ pc' = "cleanup"
              /\ cgroups' = cgroups \ {"cpu", "memory"}
    /\ UNCHANGED <<hostMounts, dirs, container, child, code, result, newRes,
                   spawned, applied, mountsBefore, umounts, imgVars, unitVars>>

\* lib.rs 169: self.mounts.cleanup(rootfs)?
Run_Cleanup ==
    /\ pc = "cleanup"
    /\ steps' = Append(steps, "umount")
    /\ LET cl == cleanup(hostMounts, 1)
       IN /\ hostMounts' = cl.mounts
          /\ umounts' = cl.attempts
          /\ IF cl.res = "Ok"
               THEN /\ pc' = "remove"
                    /\ UNCHANGED result
               ELSE /\ pc' = "returned"
                    /\ result' = <<cl.res>>
    /\ UNCHANGED <<cgroups, dirs, container, child, code, newRes, spawned,
                   applied, mountsBefore, imgVars, unitVars>>

\* the end of run with the exit code examined before the state directory
\* is removed
Run_Remove_exitFirst ==
    /\ pc = "remove"
    /\ IF code # None /\ code[1] # 0
         THEN /\ result' = <<"ContainerExit", code[1]>>
              /\ UNCHANGED <<dirs, steps>>
         ELSE /\ steps' = Append(steps, "remove")
              /\ IF dirs[container[1].id] = Absent
                   THEN /\ result' = <<"RemoveStateFile">>
                        /\ UNCHANGED dirs
                   ELSE /\ dirs' = [dirs EXCEPT ![container[1].id] = Absent]
                        /\ result' = <<"Ok">>
    /\ pc' = "returned"
    /\ UNCHANGED <<cgroups, hostMounts, container, child, code, newRes,
                   spawned, applied, mountsBefore, umounts, imgVars, unitVars>>

\* lib.rs 170-178: self.state.remove()? and the exit code
Run_Remove ==
    /\ pc = "remove"
    /\ steps' = Append(steps, "remove")
    /\ IF dirs[container[1].id] = Absent
         THEN /\ result' = <<"RemoveStateFile">>
              /\ UNCHANGED dirs
         ELSE /\ dirs' = [dirs EXCEPT ![container[1].id] = Absent]
              /\ result' = IF code # None /\ code[1] # 0
                             THEN <<"ContainerExit", code[1]>>
                             ELSE <<"Ok">>
    /\ pc' = "returned"
    /\ UNCHANGED <<cgroups, hostMounts, container, child, code, newRes,
                   spawned, applied, mountsBefore, umounts, imgVars, unitVars>>

\* the values of the enum Status
Statuses == {"creating", "created", "running", "stopped"}

\* ContainerState::set_status called on the state of the container
State_set_status(s, writeOk) ==
    /\ container # NoContainer
    /\ pc = "idle"
    /\ LET r == set_status(container[1], dirs, s, writeOk)
       IN /\ container' = Some(r.state)
          /\ dirs' = r.dirs
          /\ statusRes' = Some(r.res)
    /\ UNCHANGED <<cgroups, hostMounts, pc, child, code, result, newRes,
                   spawned, applied, mountsBefore, umounts, steps, imgVars,
                   cfgVars, nsVars, cgVars, envVars>>

\* ContainerState::remove called on the state of the container:
\* remove_dir_all of <root>/<id>
State_remove ==
    /\ container # NoContainer
    /\ pc = "idle"
    /\ IF dirs[container[1].id] = Absent
         THEN /\ statusRes' = Some(<<"RemoveStateFile">>)
              /\ UNCHANGED dirs
         ELSE /\ dirs' = [dirs EXCEPT ![container[1].id] = Absent]
              /\ statusRes' = Some(<<"Ok">>)
    /\ UNCHANGED <<cgroups, hostMounts, container, pc, child, code, result,
                   newRes, spawned, applied, mountsBefore, umounts, steps, imgVars,
                   cfgVars, nsVars, cgVars, envVars>>

StateSetStatus ==
    \E s \in Statuses, writeOk \in BOOLEAN : State_set_status(s, writeOk)

RunCgroups == \E fail \in {"none", "cpu", "memory"} : Run_Cgroups(fail)

RunSpawn == \E k \in 0..Len(DefaultMounts), execOk \in BOOLEAN : Run_Spawn(k, execOk)

RunSetStatus == \E writeOk \in BOOLEAN : Run_SetStatus(writeOk)

RunWait == \E waitOk \in BOOLEAN, exit \in {None} \cup {Some(e) : e \in 0..MaxExit} : Run_Wait(waitOk, exit)

RunDeleteCgroups == \E fail \in {"none", "cpu", "memory"} : Run_DeleteCgroups(fail)

-----------------------------------------------------------------------------

NextRun ==
    \/ NewContainer
    \/ RunCgroups
    \/ RunSpawn
    \/ RunSetStatus
    \/ RunWait
    \/ RunDeleteCgroups
    \/ Run_Cleanup
    \/ Run_Remove

-----------------------------------------------------------------------------
(* Image manager: registry content and data model *)

\* compressed layer blobs of the registry, named by their sha256 digest
Blobs == {1, 2}

\* sha256 of the gunzipped bytes of blob d
Gunzip(d) == 100 + d

\* the manifests the registry can serve: the layer digests of the manifest
\* and the diff_ids of its image configuration.  The position in the catalog
\* stands for the reference and for the manifest digest.
Catalog ==
    << [layers |-> <<1>>,    diffs |-> <<101>>],
       [layers |-> <<1, 2>>, diffs |-> <<101, 102>>],
       [layers |-> <<2, 1>>, diffs |-> <<102, 102>>],
       [layers |-> <<2, 2>>, diffs |-> <<102, 102>>],
       [layers |-> <<1>>,    diffs |-> <<101, 102>>],
       [layers |-> <<>>,     diffs |-> <<>>] >>

Refs == 1..Len(Catalog)

\* utils::to_uid: the image id derived from the manifest digest
to_uid(digest) == 10 + digest

\* ids a caller may pass to pull; 11 is also the derived id of manifest 1
OverrideIds == {11}

ImageIds == {to_uid(k) : k \in Refs} \cup OverrideIds

\* the store path of a layer: layers/<digest with ':' replaced by '_'>
StorePath(d) == d

LayerMeta(d, u) ==
    [id |-> d, compressed_digest |-> d, uncompressed_digest |-> u,
     store_path |-> StorePath(d)]

\* State::default()
EmptyState == [images |-> <<>>, layers |-> <<>>, index |-> 0]

\* MetadataManager for State
\* has_image that never finds the id
has_image_never(st, id) == FALSE

has_image(st, id) == id \in DOMAIN st.images

has_layer(st, d) == d \in DOMAIN st.layers

\* ImageMetadata::default()
ImageMetadata_default ==
    [id |-> 0, reference |-> 0, digest |-> 0, layers |-> <<>>, config |-> <<>>]

\* a lookup that returns the default ImageMetadata for an unknown id
State_image_orDefault(st, id) ==
    IF id \in DOMAIN st.images THEN Some(st.images[id])
    ELSE Some(ImageMetadata_default)

\* State::image: the metadata stored under id, if any
State_image(st, id) ==
    IF id \in DOMAIN st.images THEN Some(st.images[id]) ELSE None

\* add_layer that forgets the insertion
add_layer_noInsert(st, layer) == st

\* add_layer that replaces the layer map by the new entry
add_layer_replace(st, layer) ==
    [st EXCEPT !.layers = [k \in {layer.compressed_digest} |-> layer]]

add_layer(st, layer) ==
    [st EXCEPT !.layers =
        [k \in DOMAIN st.layers \cup {layer.compressed_digest} |->
            IF k = layer.compressed_digest THEN layer ELSE st.layers[k]]]

add_image(st, image) ==
    [st EXCEPT !.images =
        [k \in DOMAIN st.images \cup {image.id} |->
            IF k = image.id THEN image ELSE st.images[k]]]

\* snapshot_index that does not store the advanced counter
snapshot_index_noStore(st) == [state |-> st, index |-> st.index + 1]

\* State::snapshot_index: advance the counter and return the new value
snapshot_index(st) == [state |-> [st EXCEPT !.index = @ + 1], index |-> st.index + 1]

-----------------------------------------------------------------------------
(* State Store: the state.json document as a sequence of tokens *)

RECURSIVE SortedSeq(_)
SortedSeq(S) ==
    IF S = {} THEN <<>>
    ELSE LET m == CHOOSE x \in S : \A y \in S : x <= y
         IN <<m>> \o SortedSeq(S \ {m})

SerLayers(ls) ==
    [i \in 1..Len(ls) |->
        <<"layer", ls[i].compressed_digest, ls[i].uncompressed_digest,
          ls[i].store_path>>]

SerDiffs(ds) == [i \in 1..Len(ds) |-> <<"diff", ds[i], 0, 0>>]

SerImage(im) ==
    <<<<"image", im.id, im.reference, im.digest>>>>
        \o SerLayers(im.layers) \o SerDiffs(im.config)

RECURSIVE SerImages(_, _)
SerImages(images, ids) ==
    IF ids = <<>> THEN <<>>
    ELSE SerImage(images[Head(ids)]) \o SerImages(images, Tail(ids))

\* serde_json::to_string_pretty(&state)
Serialize(st) ==
    LET ids == SortedSeq(DOMAIN st.images)
        ds == SortedSeq(DOMAIN st.layers)
    IN <<<<"{", 0, 0, 0>>>>
         \o SerImages(st.images, ids)
         \o <<<<"layers", 0, 0, 0>>>>
         \o SerLayers([i \in 1..Len(ds) |-> st.layers[ds[i]]])
         \o <<<<"index", st.index, 0, 0>>, <<"}", 0, 0, 0>>>>

Tag(f, p) == IF p >= 1 /\ p <= Len(f) THEN f[p][1] ELSE "eof"

\* the run of tokens with tag t that starts at position p ends before this
RECURSIVE RunEnd(_, _, _)
RunEnd(f, p, t) == IF Tag(f, p) = t THEN RunEnd(f, p + 1, t) ELSE p

ParseLayers(f, p, q) ==
    [i \in 1..(q - p) |->
        [id |-> f[p + i - 1][2], compressed_digest |-> f[p + i - 1][2],
         uncompressed_digest |-> f[p + i - 1][3],
         store_path |-> f[p + i - 1][4]]]

\* the images that start at position p, and the position after them
RECURSIVE ParseImages(_, _, _)
ParseImages(f, p, acc) ==
    IF Tag(f, p) # "image" THEN [images |-> acc, next |-> p]
    ELSE LET q == RunEnd(f, p + 1, "layer")
             r == RunEnd(f, q, "diff")
             im == [id |-> f[p][2], reference |-> f[p][3],
                    digest |-> f[p][4],
                    layers |-> ParseLayers(f, p + 1, q),
                    config |-> [i \in 1..(r - q) |-> f[q + i - 1][2]]]
         IN ParseImages(f, r,
                [k \in DOMAIN acc \cup {im.id} |->
                    IF k = im.id THEN im ELSE acc[k]])

\* serde_json::from_reader::<File, State>: the document, or an error when the
\* file does not hold exactly one State document
Parse(f) ==
    IF Tag(f, 1) # "{" THEN None
    ELSE LET pi == ParseImages(f, 2, <<>>)
             p == pi.next
             q == RunEnd(f, p + 1, "layer")
             ls == ParseLayers(f, p + 1, q)
         IN IF /\ Tag(f, p) = "layers"
               /\ Tag(f, q) = "index"
               /\ Tag(f, q + 1) = "}"
               /\ Len(f) = q + 1
              THEN Some([images |-> pi.images,
                         layers |-> [d \in {ls[i].compressed_digest :
                                               i \in 1..Len(ls)} |->
                                       LET i == CHOOSE j \in 1..Len(ls) :
                                                  ls[j].compressed_digest = d
                                       IN ls[i]],
                         index |-> f[q][2]])
              ELSE None

\* TryFrom<&PathBuf> for State: an unparseable file yields State::default()
Load(f) == IF Parse(f) = None THEN EmptyState ELSE Parse(f)[1]

\* State::save: the file is opened for writing without truncation and the
\* document is written from offset 0
Save(f, st) ==
    LET new == Serialize(st)
    IN IF Len(f) > Len(new)
         THEN new \o SubSeq(f, Len(new) + 1, Len(f))
         ELSE new

\* write_all cut short by the death of the process: the first k tokens of
\* the new document are in the file, the rest of the file is as it was
write_torn(f, new, k) ==
    [i \in 1..(IF Len(f) > k THEN Len(f) ELSE k) |->
        IF i <= k THEN new[i] ELSE f[i]]

-----------------------------------------------------------------------------
(* Image manager: pull *)

NoPull == [ref |-> 0, id |-> 0]

\* a comparison of the layer counts that accepts every configuration
layer_count_any(m) == TRUE

\* lib.rs 185: the configuration lists as many diff_ids as the manifest has
\* layers
layer_count_ok(m) == Len(m.diffs) = Len(m.layers)

\* ImageManager::pull up to the call of pull_layers: the manifest and the
\* configuration are fetched, the image id is derived, a known id without
\* force returns at once, the configuration is parsed and the layer counts
\* are compared.
Pull_Begin(k, force, id, fail) ==
    /\ ipc = "idle"
    /\ ops < MaxOps
    /\ ops' = ops + 1
    /\ fetched' = 0
    /\ loaded' = FALSE
    /\ managerRes' = None
    /\ completed' = <<>>
    /\ mountRes' = None
    /\ overlay' = None
    /\ LET m == Catalog[k]
           image_id == IF id = None THEN to_uid(k) ELSE id[1]
       IN IF fail = "manifest"
            THEN /\ pullRes' = <<"PullManifest", 0>>
                 /\ before' = None
                 /\ UNCHANGED <<ipc, pull>>
          ELSE IF has_image(state, image_id) /\ ~force
            THEN /\ pullRes' = <<"Ok", image_id>>
                 /\ before' = None
                 /\ UNCHANGED <<ipc, pull>>
          ELSE IF fail = "config"
            THEN /\ pullRes' = <<"ParseImageConfiguration", 0>>
                 /\ before' = None
                 /\ UNCHANGED <<ipc, pull>>
          ELSE IF ~layer_count_ok(m)
            THEN /\ pullRes' = <<"InvalidPulledLayers", 0>>
                 /\ before' = None
                 /\ UNCHANGED <<ipc, pull>>
          ELSE /\ ipc' = "pull_layers"
               /\ pull' = [ref |-> k, id |-> image_id]
               /\ before' = Some(state)
               /\ pullRes' = None
    /\ UNCHANGED <<state, stateFile, layerDirs, tasks, mountLog, scratch,
                   saved, runVars, unitVars>>

\* Puller::pull_layers, first part: client.pull fetches every layer blob of
\* the manifest, the layers directory is created, one task per layer is built.
Pull_Fetch(fail) ==
    /\ ipc = "pull_layers"
    /\ IF fail = "pull"
         THEN /\ pullRes' = <<"PullImage", 0>>
              /\ ipc' = "idle"
              /\ pull' = NoPull
              /\ UNCHANGED <<fetched, tasks>>
       ELSE IF fail = "mkdir"
         THEN /\ pullRes' = <<"LayerDirectoryCreation", 0>>
              /\ fetched' = Len(Catalog[pull.ref].layers)
              /\ ipc' = "idle"
              /\ pull' = NoPull
              /\ UNCHANGED tasks
         ELSE /\ fetched' = Len(Catalog[pull.ref].layers)
              /\ tasks' = [i \in 1..Len(Catalog[pull.ref].layers) |->
                              [st |-> "check", meta |-> None,
                               unpacked |-> FALSE]]
              /\ ipc' = "tasks"
              /\ UNCHANGED <<pull, pullRes>>
    /\ UNCHANGED <<state, stateFile, layerDirs, completed, before, mountLog,
                   scratch, mountRes,
                   overlay, saved, loaded, managerRes, ops, runVars,
                   unitVars>>

\* a layer task that inserts its layer in the layer map before it has
\* verified and unpacked it
Layer_Check_insertFirst(i, unpackOk) ==
    /\ ipc = "tasks"
    /\ i \in DOMAIN tasks
    /\ tasks[i].st = "check"
    /\ LET d == Catalog[pull.ref].layers[i]
           u == Gunzip(d)
       IN IF has_layer(state, d)
            THEN /\ tasks' = [tasks EXCEPT ![i] =
                                [st |-> "done", meta |-> Some(state.layers[d]),
                                 unpacked |-> FALSE]]
                 /\ completed' = Append(completed, i)
                 /\ UNCHANGED <<state, layerDirs, ipc, pull, pullRes>>
          ELSE /\ state' = add_layer(state, LayerMeta(d, u))
               /\ IF u # Catalog[pull.ref].diffs[i]
                    THEN /\ pullRes' = <<"UncompressedLayerInvalid", 0>>
                         /\ ipc' = "idle"
                         /\ pull' = NoPull
                         /\ tasks' = <<>>
                         /\ UNCHANGED <<layerDirs, completed>>
                  ELSE IF ~unpackOk
                    THEN /\ pullRes' = <<"UnpackLayer", 0>>
                         /\ ipc' = "idle"
                         /\ pull' = NoPull
                         /\ tasks' = <<>>
                         /\ layerDirs' = [layerDirs EXCEPT ![d] =
                                            IF @ = "full" THEN "full"
                                            ELSE "partial"]
                         /\ UNCHANGED completed
                  ELSE /\ layerDirs' = [layerDirs EXCEPT ![d] = "full"]
                       /\ tasks' = [tasks EXCEPT ![i] =
                                      [st |-> "insert",
                                       meta |-> Some(LayerMeta(d, u)),
                                       unpacked |-> TRUE]]
                       /\ UNCHANGED <<ipc, pull, pullRes, completed>>
    /\ UNCHANGED <<stateFile, before, fetched, mountLog, scratch,
                   mountRes, overlay, saved, loaded, managerRes, ops, runVars,
                   unitVars>>

\* one layer task up to its second lock: a digest found in the layer map
\* returns the stored metadata; otherwise the blob is decompressed, its digest
\* is compared with diffs[i] and the archive is unpacked.  An error of one
\* task makes try_join_all return it and drop the other tasks.
Layer_Check(i, unpackOk) ==
    /\ ipc = "tasks"
    /\ i \in DOMAIN tasks
    /\ tasks[i].st = "check"
    /\ LET d == Catalog[pull.ref].layers[i]
           u == Gunzip(d)
       IN IF has_layer(state, d)
            THEN /\ tasks' = [tasks EXCEPT ![i] =
                                [st |-> "done", meta |-> Some(state.layers[d]),
                                 unpacked |-> FALSE]]
                 /\ completed' = Append(completed, i)
                 /\ UNCHANGED <<layerDirs, ipc, pull, pullRes>>
          ELSE IF u # Catalog[pull.ref].diffs[i]
            THEN /\ pullRes' = <<"UncompressedLayerInvalid", 0>>
                 /\ ipc' = "idle"
                 /\ pull' = NoPull
                 /\ tasks' = <<>>
                 /\ UNCHANGED <<layerDirs, completed>>
          ELSE IF ~unpackOk
            THEN /\ pullRes' = <<"UnpackLayer", 0>>
                 /\ ipc' = "idle"
                 /\ pull' = NoPull
                 /\ tasks' = <<>>
                 /\ layerDirs' = [layerDirs EXCEPT ![d] =
                                    IF @ = "full" THEN "full" ELSE "partial"]
                 /\ UNCHANGED completed
          ELSE /\ layerDirs' = [layerDirs EXCEPT ![d] = "full"]
               /\ tasks' = [tasks EXCEPT ![i] =
                              [st |-> "insert", meta |-> Some(LayerMeta(d, u)),
                               unpacked |-> TRUE]]
               /\ UNCHANGED <<ipc, pull, pullRes, completed>>
    /\ UNCHANGED <<state, stateFile, before, fetched, mountLog, scratch,
                   mountRes, overlay, saved, loaded, managerRes, ops, runVars,
                   unitVars>>

\* the end of a layer task: state.lock().await.add_layer(&layer_meta)
Layer_Insert(i) ==
    /\ ipc = "tasks"
    /\ i \in DOMAIN tasks
    /\ tasks[i].st = "insert"
    /\ state' = add_layer(state, tasks[i].meta[1])
    /\ tasks' = [tasks EXCEPT ![i].st = "done"]
    /\ completed' = Append(completed, i)
    /\ UNCHANGED <<stateFile, layerDirs, ipc, pull, before, pullRes, fetched,
                   mountLog,
                   scratch, mountRes,
                   overlay, saved, loaded, managerRes, ops, runVars,
                   unitVars>>

\* try_join_all that collects the outputs in the order of completion
try_join_all_completionOrder(ts, order) ==
    [j \in 1..Len(order) |-> ts[order[j]].meta[1]]

\* futures_util::future::try_join_all on tasks that all returned Ok: the
\* outputs in the order of the input iterator, whatever the order in which
\* the tasks completed
try_join_all(ts, order) == [i \in DOMAIN ts |-> ts[i].meta[1]]

\* ImageManager::pull after pull_layers returned Ok: add_image, then save
Pull_Finish(saveOk) ==
    /\ ipc = "tasks"
    /\ \A i \in DOMAIN tasks : tasks[i].st = "done"
    /\ LET image == [id |-> pull.id, reference |-> pull.ref,
                     digest |-> pull.ref,
                     layers |-> try_join_all(tasks, completed),
                     config |-> Catalog[pull.ref].diffs]
           st == add_image(state, image)
       IN /\ state' = st
          /\ IF saveOk
               THEN /\ stateFile' = Save(stateFile, st)
                    /\ saved' = Some(st)
                    /\ pullRes' = <<"Ok", pull.id>>
               ELSE /\ pullRes' = <<"OpenStateFile", 0>>
                    /\ UNCHANGED <<stateFile, saved>>
    /\ ipc' = "idle"
    /\ pull' = NoPull
    /\ tasks' = <<>>
    /\ before' = None
    /\ UNCHANGED <<layerDirs, completed, fetched, mountLog, scratch, mountRes,
                   overlay, loaded, managerRes, ops, runVars, unitVars>>

\* the process dies inside the State::save of ImageManager::pull, after k
\* tokens of the document were written; no manager and nothing of its memory
\* is left, and the next
\* thing to happen on the data directory is ImageManager::new.  The new
\* process is followed up to that call: the crash uses up the calls of pull
\* and mount that are left.
Pull_Finish_Crash ==
    /\ ipc = "tasks"
    /\ \A i \in DOMAIN tasks : tasks[i].st = "done"
    /\ LET image == [id |-> pull.id, reference |-> pull.ref,
                     digest |-> pull.ref,
                     layers |-> try_join_all(tasks, completed),
                     config |-> Catalog[pull.ref].diffs]
           new == Serialize(add_image(state, image))
       IN \E k \in 0..Len(new) : stateFile' = write_torn(stateFile, new, k)
    /\ ipc' = "crashed"
    /\ pull' = NoPull
    /\ tasks' = <<>>
    /\ before' = None
    /\ pullRes' = <<"Crashed", 0>>
    /\ ops' = MaxOps
    /\ state' = EmptyState
    /\ mountLog' = <<>>
    /\ completed' = <<>>
    /\ fetched' = 0
    /\ managerRes' = None
    /\ UNCHANGED <<layerDirs, scratch, mountRes, overlay, saved, loaded,
                   runVars, unitVars>>

\* the caller drops the pull future at one of its await points
Pull_Abort ==
    /\ ipc \in {"pull_layers", "tasks"}
    /\ ipc' = "idle"
    /\ pull' = NoPull
    /\ tasks' = <<>>
    /\ pullRes' = <<"Aborted", 0>>
    /\ before' = None
    /\ UNCHANGED <<state, stateFile, layerDirs, completed, fetched, mountLog,
                   scratch, mountRes,
                   overlay, saved, loaded, managerRes, ops, runVars,
                   unitVars>>

-----------------------------------------------------------------------------
(* Image manager: mount and construction *)

RECURSIVE join(_, _)
\* [&str]::join(sep): the pieces with sep between neighbours
join(l, sep) ==
    IF Len(l) <= 1 THEN l
    ELSE <<Head(l), sep>> \o join(Tail(l), sep)

\* OverlayFS::mount, overlay.rs 26-30: the lowerdir option built from the
\* layers in the order they are given
OverlayFS_lowerdir(layers) == join(layers, ":")

\* ImageManager::mount that saves the state right after it took the
\* snapshot index, before the overlay mount and the config write
Mount_saveFirst(id, fail) ==
    /\ ipc = "idle"
    /\ ops < MaxOps
    /\ ops' = ops + 1
    /\ loaded' = FALSE
    /\ managerRes' = None
    /\ completed' = <<>>
    /\ before' = None
    /\ pullRes' = None
    /\ fetched' = 0
    /\ IF State_image(state, id) = None
         THEN /\ mountRes' = <<"ImageNotFound", 0>>
              /\ overlay' = None
              /\ UNCHANGED <<state, stateFile, mountLog, scratch, saved>>
         ELSE LET si == snapshot_index(state)
                  image == State_image(state, id)[1]
              IN /\ state' = si.state
                 /\ overlay' =
                      IF fail = "mkdir" THEN None
                      ELSE Some([image |-> id,
                                 lowerdir |-> OverlayFS_lowerdir(
                                     [i \in DOMAIN image.layers |->
                                         image.layers[i].store_path]),
                                 mounted |-> fail # "overlay",
                                 config |-> fail \in {"none", "save"}])
                 /\ scratch' = IF fail = "mkdir" THEN scratch
                               ELSE scratch \cup {si.index}
                 /\ IF fail = "save"
                      THEN UNCHANGED <<stateFile, saved>>
                      ELSE /\ stateFile' = Save(stateFile, si.state)
                           /\ saved' = Some(si.state)
                 /\ IF fail = "none"
                      THEN /\ mountLog' = Append(mountLog, si.index)
                           /\ mountRes' = <<"Ok", id>>
                      ELSE /\ mountRes' =
                                <<CASE fail = "mkdir" -> "OverlayFSCreateDirectory"
                                    [] fail = "overlay" -> "OverlayFSMount"
                                    [] fail = "config" -> "GenerateOCIConfig"
                                    [] fail = "save" -> "OpenStateFile", 0>>
                           /\ UNCHANGED mountLog
    /\ UNCHANGED <<layerDirs, ipc, pull, tasks, runVars, unitVars>>

\* ImageManager::mount: look the image up, take a snapshot index, stack the
\* layers with the snapshotter, write config.json, save the state.  fail names
\* the step that fails, if any.  overlay describes the bundle when the call
\* returns: mount never unmounts, so the overlay is mounted at
\* bundle_path/rootfs whenever the overlay mount succeeded.
Mount(id, fail) ==
    /\ ipc = "idle"
    /\ ops < MaxOps
    /\ ops' = ops + 1
    /\ loaded' = FALSE
    /\ managerRes' = None
    /\ completed' = <<>>
    /\ before' = None
    /\ pullRes' = None
    /\ fetched' = 0
    /\ IF State_image(state, id) = None
         THEN /\ mountRes' = <<"ImageNotFound", 0>>
              /\ overlay' = None
              /\ UNCHANGED <<state, stateFile, mountLog, scratch, saved>>
         ELSE LET si == snapshot_index(state)
                  image == State_image(state, id)[1]
              IN /\ state' = si.state
                 /\ overlay' =
                      IF fail = "mkdir" THEN None
                      ELSE Some([image |-> id,
                                 lowerdir |-> OverlayFS_lowerdir(
                                     [i \in DOMAIN image.layers |->
                                         image.layers[i].store_path]),
                                 mounted |-> fail # "overlay",
                                 config |-> fail \in {"none", "save"}])
                 /\ scratch' = IF fail = "mkdir" THEN scratch
                               ELSE scratch \cup {si.index}
                 /\ IF fail = "none"
                      THEN /\ stateFile' = Save(stateFile, si.state)
                           /\ saved' = Some(si.state)
                           /\ mountLog' = Append(mountLog, si.index)
                           /\ mountRes' = <<"Ok", id>>
                      ELSE /\ mountRes' =
                                <<CASE fail = "mkdir" -> "OverlayFSCreateDirectory"
                                    [] fail = "overlay" -> "OverlayFSMount"
                                    [] fail = "config" -> "GenerateOCIConfig"
                                    [] fail = "save" -> "OpenStateFile", 0>>
                           /\ UNCHANGED <<stateFile, mountLog, saved>>
    /\ UNCHANGED <<layerDirs, ipc, pull, tasks, runVars, unitVars>>

\* ImageManager::new that reports a state file it cannot parse
Manager_new_strict(fail) ==
    /\ ipc \in {"idle", "crashed"}
    /\ UNCHANGED ops
    /\ pullRes' = None
    /\ mountRes' = None
    /\ overlay' = None
    /\ fetched' = 0
    /\ completed' = <<>>
    /\ before' = None
    /\ IF fail = "none" /\ Parse(stateFile) # None
         THEN /\ state' = Parse(stateFile)[1]
              /\ mountLog' = <<>>
              /\ loaded' = TRUE
              /\ managerRes' = <<"Ok">>
              /\ ipc' = "idle"
         ELSE /\ managerRes' = <<"ParseStateFile">>
              /\ loaded' = FALSE
              /\ UNCHANGED <<state, mountLog, ipc>>
    /\ UNCHANGED <<stateFile, layerDirs, pull, tasks, scratch, saved,
                   runVars, unitVars>>

\* ImageManager::new on the same data directory: the directory is created
\* when missing, the state file is opened (and created when absent: an absent
\* file is read as an empty one) and the state is loaded from it.  fail names
\* the file operation that fails, if any; a failed call builds no manager and
\* the caller keeps the one it had, if it had one.
Manager_new(fail) ==
    /\ ipc \in {"idle", "crashed"}
    /\ UNCHANGED ops
    /\ pullRes' = None
    /\ mountRes' = None
    /\ overlay' = None
    /\ fetched' = 0
    /\ completed' = <<>>
    /\ before' = None
    /\ IF fail = "none"
         THEN /\ state' = Load(stateFile)
              /\ mountLog' = <<>>
              /\ loaded' = TRUE
              /\ managerRes' = <<"Ok">>
              /\ ipc' = "idle"
         ELSE /\ managerRes' = <<IF fail = "mkdir"
                                   THEN "ManagerDataDirectoryCreation"
                                   ELSE "OpenStateFile">>
              /\ loaded' = FALSE
              /\ UNCHANGED <<state, mountLog, ipc>>
    /\ UNCHANGED <<stateFile, layerDirs, pull, tasks, scratch, saved,
                   runVars, unitVars>>

ManagerNew == \E fail \in {"none", "mkdir", "open"} : Manager_new(fail)

PullBegin ==
    \E k \in Refs, force \in BOOLEAN,
       id \in {None} \cup {Some(i) : i \in OverrideIds},
       fail \in {"none", "manifest", "config"} :
        Pull_Begin(k, force, id, fail)

PullFetch == \E fail \in {"none", "pull", "mkdir"} : Pull_Fetch(fail)

LayerCheck == \E i \in 1..2, unpackOk \in BOOLEAN : Layer_Check(i, unpackOk)

LayerInsert == \E i \in 1..2 : Layer_Insert(i)

PullFinish == \E saveOk \in BOOLEAN : Pull_Finish(saveOk)

MountImage ==
    \E id \in ImageIds, fail \in {"none", "mkdir", "overlay", "config", "save"} :
        Mount(id, fail)

-----------------------------------------------------------------------------
(* Runtime spec builder: container::spec *)

\* oci_spec::image::ANNOTATION_CREATED
ANNOTATION_CREATED == "org.opencontainers.image.created"

\* Process::default() of oci_spec: the fields build_process may overwrite
Process_default ==
    [args |-> Some(<<"sh">>), env |-> Some(<<"PATH=/usr/bin", "TERM=xterm">>),
     cwd |-> "/"]

\* Spec::default() of oci_spec
Spec_default ==
    [version |-> "1.0.2-dev", process |-> Process_default, annotations |-> None]

\* HashMap::new()
EmptyMap == [k \in {} |-> ""]

\* HashMap::insert
insert(m, k, v) == [x \in DOMAIN m \cup {k} |-> IF x = k THEN v ELSE m[x]]

\* HashMap::extend: every pair of l is inserted, replacing the value of a key
\* that m already holds
extend(m, l) ==
    [x \in DOMAIN m \cup DOMAIN l |-> IF x \in DOMAIN l THEN l[x] ELSE m[x]]

\* build_process that puts cmd in front of entrypoint
build_process_cmdFirst(image_config) ==
    IF image_config.config = None THEN Process_default
    ELSE LET config == image_config.config[1]
             e == IF config.entrypoint = None THEN <<>> ELSE config.entrypoint[1]
             c == IF config.cmd = None THEN <<>> ELSE config.cmd[1]
             args == c \o e
         IN [args |-> IF args # <<>> THEN Some(args) ELSE Process_default.args,
             env |-> IF config.env # None THEN Some(config.env[1])
                     ELSE Process_default.env,
             cwd |-> IF config.working_dir # None THEN config.working_dir[1]
                     ELSE Process_default.cwd]

\* build_process: args collects entrypoint then cmd and is set only when it is
\* not empty; env and cwd are set when the configuration has them
build_process(image_config) ==
    IF image_config.config = None THEN Process_default
    ELSE LET config == image_config.config[1]
             e == IF config.entrypoint = None THEN <<>> ELSE config.entrypoint[1]
             c == IF config.cmd = None THEN <<>> ELSE config.cmd[1]
             args == e \o c
         IN [args |-> IF args # <<>> THEN Some(args) ELSE Process_default.args,
             env |-> IF config.env # None THEN Some(config.env[1])
                     ELSE Process_default.env,
             cwd |-> IF config.working_dir # None THEN config.working_dir[1]
                     ELSE Process_default.cwd]

\* build_annotations: created is inserted first, then the map is extended
\* with the labels
build_annotations(image_config) ==
    LET a0 == EmptyMap
        a1 == IF image_config.created # None
                THEN insert(a0, ANNOTATION_CREATED, image_config.created[1])
                ELSE a0
    IN IF image_config.config # None /\ image_config.config[1].labels # None
         THEN extend(a1, image_config.config[1].labels[1])
         ELSE a1

new_runtime_config(image_config) ==
    IF image_config # None
      THEN [version |-> "1.0",
            process |-> build_process(image_config[1]),
            annotations |-> Some(build_annotations(image_config[1]))]
      ELSE Spec_default

\* the inputs: argument vectors of at most MaxArgs words
ArgVecs(words) == UNION {[1..n -> words] : n \in 0..MaxArgs}

Opt(S) == {None} \cup {Some(x) : x \in S}

LabelMaps ==
    UNION {[K -> {"02-01", "jhon"}] : K \in SUBSET {ANNOTATION_CREATED, "maintainer"}}

Configs ==
    [entrypoint : Opt(ArgVecs({"bash", "ls"})),
     cmd : Opt(ArgVecs({"-c", "ls"})),
     env : Opt({<<>>, <<"PATH=/usr/local/sbin">>}),
     working_dir : Opt({"/home"}),
     labels : Opt(LabelMaps)]

ImageConfigurations == [created : Opt({"01-12"}), config : Opt(Configs)]

\* one call of new_runtime_config by this process (kaps spec, or the
\* configuration step of ImageManager::mount)
New_runtime_config(image_config) ==
    /\ imageConfig = None
    /\ imageConfig' = Some(image_config)
    /\ runtimeSpec' = Some(new_runtime_config(image_config))
    /\ UNCHANGED <<runVars, imgVars, stVars, nsVars, cgVars, envVars>>

NewRuntimeConfig ==
    \E image_config \in Opt(ImageConfigurations) : New_runtime_config(image_config)

-----------------------------------------------------------------------------
(* Namespace translator: src/src/container/namespaces.rs and main.rs *)

\* the variants of oci_spec::runtime::LinuxNamespaceType
LinuxNamespaceTypes ==
    {"cgroup", "ipc", "mount", "network", "pid", "uts", "user"}

\* from_oci_namespace: the unshare::Namespace of an OCI namespace type
from_oci_namespace(namespace) ==
    CASE namespace = "cgroup" -> "Cgroup"
      [] namespace = "ipc" -> "Ipc"
      [] namespace = "mount" -> "Mount"
      [] namespace = "network" -> "Net"
      [] namespace = "pid" -> "Pid"
      [] namespace = "uts" -> "Uts"
      [] namespace = "user" -> "User"

RECURSIVE map_from_oci(_)
\* .iter().map(|n| from_oci_namespace(n.typ()).unwrap())
map_from_oci(l) ==
    IF l = <<>> THEN <<>>
    ELSE <<from_oci_namespace(Head(l))>> \o map_from_oci(Tail(l))

RECURSIVE filter_user(_)
\* .filter(|n| n != &Namespace::User)
filter_user(l) ==
    IF l = <<>> THEN <<>>
    ELSE IF Head(l) # "User" THEN <<Head(l)>> \o filter_user(Tail(l))
    ELSE filter_user(Tail(l))

\* Namespaces::from without the filter
Namespaces_from_noFilter(namespaces) ==
    map_from_oci(IF namespaces = None THEN <<>> ELSE namespaces[1])

\* Namespaces::from(&Option<Vec<LinuxNamespace>>): None is the empty list
Namespaces_from(namespaces) ==
    filter_user(map_from_oci(IF namespaces = None THEN <<>> ELSE namespaces[1]))

RECURSIVE namespaces_loop(_, _)
\* the for loop of Runtime::namespaces: push unless the type is User
namespaces_loop(ns, acc) ==
    IF ns = <<>> THEN acc
    ELSE LET ns_type == from_oci_namespace(Head(ns))
         IN namespaces_loop(Tail(ns),
                IF ns_type # "User" THEN Append(acc, ns_type) ELSE acc)

\* Runtime::namespaces over the linux.namespaces of the spec
Runtime_namespaces(namespaces) ==
    IF namespaces = None THEN <<>> ELSE namespaces_loop(namespaces[1], <<>>)

RECURSIVE SeqsUpTo(_, _)
\* the sequences over S of length at most n
SeqsUpTo(S, n) ==
    IF n = 0 THEN {<<>>}
    ELSE LET R == SeqsUpTo(S, n - 1)
         IN R \cup {Append(l, x) : l \in {r \in R : Len(r) = n - 1}, x \in S}

\* the values of linux.namespaces: absent, or a list
NamespaceLists == Opt(SeqsUpTo(LinuxNamespaceTypes, MaxNs))

\* a container is built: Namespaces::from(linux.namespaces())
Namespaces_From(namespaces) ==
    /\ linuxNamespaces = None
    /\ linuxNamespaces' = Some(namespaces)
    /\ unshareSet' = Some(<<"Namespaces::from", Namespaces_from(namespaces)>>)
    /\ UNCHANGED <<runVars, imgVars, cfgVars, stVars, cgVars, envVars>>

\* the runtime of main.rs computes its namespaces
Runtime_Namespaces(namespaces) ==
    /\ linuxNamespaces = None
    /\ linuxNamespaces' = Some(namespaces)
    /\ unshareSet' =
          Some(<<"Runtime::namespaces", Runtime_namespaces(namespaces)>>)
    /\ UNCHANGED <<runVars, imgVars, cfgVars, stVars, cgVars, envVars>>

NamespacesFrom == \E namespaces \in NamespaceLists : Namespaces_From(namespaces)

RuntimeNamespaces ==
    \E namespaces \in NamespaceLists : Runtime_Namespaces(namespaces)

-----------------------------------------------------------------------------
(* Cgroup controllers: src/container/src/cpu.rs and memory.rs *)

\* what a file of a new cgroup holds until it is written
KernelDefault == -1

\* the fields of LinuxCpu that Cpu::apply reads, with the file each one sets
CpuFiles ==
    [shares |-> "cpu.shares", period |-> "cpu.cfs_period_us",
     quota |-> "cpu.cfs_quota_us", realtime_runtime |-> "cpu.rt_runtime_us",
     realtime_period |-> "cpu.rt_period_us"]

\* the numeric fields of LinuxMemory that Memory::apply reads
MemoryFiles ==
    [limit |-> "memory.limit_in_bytes", swappiness |-> "memory.swappiness",
     kernel |-> "memory.kmem.limit_in_bytes",
     kernel_tcp |-> "memory.kmem.tcp.limit_in_bytes",
     reservation |-> "memory.soft_limit_in_bytes"]

OomControl == "memory.oom_control"

CgroupFileNames ==
    {CpuFiles[f] : f \in DOMAIN CpuFiles}
        \cup {MemoryFiles[f] : f \in DOMAIN MemoryFiles} \cup {OomControl}

\* the cgroup right after Cpu::new / Memory::new
NewCgroup ==
    [files |-> [f \in CgroupFileNames |-> KernelDefault], writes |-> <<>>,
     tasks |-> {}]

\* one set_* call of the controlgroup subsystem
set_file(cg, file, v) ==
    [cg EXCEPT !.files[file] = v, !.writes = Append(@, <<file, v>>)]

\* a field written whenever it is present
set_if_present(cg, file, field) ==
    IF field # None THEN set_file(cg, file, field[1]) ELSE cg

\* if let Some(x) = field { if x != 0 { set(x) } }
set_if_nonzero(cg, file, field) ==
    IF field # None /\ field[1] # 0 THEN set_file(cg, file, field[1]) ELSE cg

\* add_task(pid) of the calling process
add_task(cg) == [cg EXCEPT !.tasks = @ \cup {"self"}]

\* Cpu::apply
Cpu_apply(cg, cpu) ==
    LET c1 == set_if_nonzero(cg, CpuFiles.shares, cpu.shares)
        c2 == set_if_nonzero(c1, CpuFiles.period, cpu.period)
        c3 == set_if_nonzero(c2, CpuFiles.quota, cpu.quota)
        c4 == set_if_nonzero(c3, CpuFiles.realtime_runtime, cpu.realtime_runtime)
        c5 == set_if_nonzero(c4, CpuFiles.realtime_period, cpu.realtime_period)
    IN add_task(c5)

\* Memory::apply; disable_oom_killer is a boolean, stored as 0 or 1
Memory_apply(cg, memory) ==
    LET c1 == set_if_nonzero(cg, MemoryFiles.limit, memory.limit)
        c2 == set_if_nonzero(c1, MemoryFiles.swappiness, memory.swappiness)
        c3 == set_if_nonzero(c2, MemoryFiles.kernel, memory.kernel)
        c4 == set_if_nonzero(c3, MemoryFiles.kernel_tcp, memory.kernel_tcp)
        c5 == set_if_nonzero(c4, MemoryFiles.reservation, memory.reservation)
        c6 == IF memory.disable_oom_killer # None
                THEN set_file(c5, OomControl,
                              IF memory.disable_oom_killer[1] THEN 1 ELSE 0)
                ELSE c5
    IN add_task(c6)

\* the limits records: every field absent, zero or a value
LinuxCpus == [DOMAIN CpuFiles -> Opt(0..MaxLimit)]

LinuxMemories ==
    {[m EXCEPT !.disable_oom_killer = o] :
        m \in [DOMAIN MemoryFiles \cup {"disable_oom_killer"} -> Opt(0..MaxLimit)],
        o \in Opt(BOOLEAN)}

\* cpu_cgroup.apply(&resources_cpu) on a new cgroup
Cpu_Apply(cpu) ==
    /\ limits = None
    /\ limits' = Some(<<"cpu", cpu>>)
    /\ cgroupFs' = Cpu_apply(cgroupFs, cpu)
    /\ UNCHANGED <<runVars, imgVars, cfgVars, stVars, nsVars, envVars>>

\* memory_cgroup.apply(&resources_memory) on a new cgroup
Memory_Apply(memory) ==
    /\ limits = None
    /\ limits' = Some(<<"memory", memory>>)
    /\ cgroupFs' = Memory_apply(cgroupFs, memory)
    /\ UNCHANGED <<runVars, imgVars, cfgVars, stVars, nsVars, envVars>>

CpuApply == \E cpu \in LinuxCpus : Cpu_Apply(cpu)

MemoryApply == \E memory \in LinuxMemories : Memory_Apply(memory)

-----------------------------------------------------------------------------
(* Environment: src/container/src/environment.rs *)

\* the characters of the entries of process.env; a string is the sequence
\* of its characters
EnvChars == {"a", "="}

RECURSIVE split_from(_, _, _)
\* the pieces of s between the occurrences of sep, cur being the piece
\* under construction
split_from(s, sep, cur) ==
    IF s = <<>> THEN <<cur>>
    ELSE IF Head(s) = sep THEN <<cur>> \o split_from(Tail(s), sep, <<>>)
    ELSE split_from(Tail(s), sep, Append(cur, Head(s)))

\* str::split(sep).collect::<Vec<&str>>()
split(s, sep) == split_from(s, sep, <<>>)

\* environment.rs 26-27: the pair pushed for one entry; key_value[1] is out
\* of bounds when the entry holds no '='
key_value(var) ==
    LET pieces == split(var, "=")
    IN IF Len(pieces) < 2 THEN <<"panic">>
       ELSE <<"Ok", <<pieces[1], pieces[2]>>>>

RECURSIVE env_loop(_, _)
\* for var in env { ... vars.push(...) }
env_loop(env, acc) ==
    IF env = <<>> THEN <<"Ok", acc>>
    ELSE LET kv == key_value(Head(env))
         IN IF kv[1] = "panic" THEN <<"panic">>
            ELSE env_loop(Tail(env), Append(acc, kv[2]))

\* Environment::from(&Option<Process>)
Environment_from(p) ==
    IF p = None THEN <<"Ok", <<>>>>
    ELSE IF p[1].env = None THEN <<"Ok", <<>>>>
    ELSE env_loop(p[1].env[1], <<>>)

\* the values of spec.process(): absent, or a process with its env
Processes ==
    Opt([env : Opt(SeqsUpTo(SeqsUpTo(EnvChars, MaxEnvLen), MaxEnv))])

\* lib.rs 122: environment: Environment::from(spec.process())
Environment_From(p) ==
    /\ envProcess = None
    /\ envProcess' = Some(p)
    /\ environment' = Some(Environment_from(p))
    /\ UNCHANGED <<runVars, imgVars, cfgVars, stVars, nsVars, cgVars>>

EnvironmentFrom == \E p \in Processes : Environment_From(p)

-----------------------------------------------------------------------------

\* the host before the first container and a manager built on an empty data
\* directory
Init ==
    /\ cgroups = {}
    /\ hostMounts = NoMounts
    /\ dirs = [id \in ContainerIds |-> Absent]
    /\ container = NoContainer
    /\ pc = "idle"
    /\ child = "none"
    /\ code = None
    /\ result = None
    /\ newRes = None
    /\ spawned = FALSE
    /\ applied = 0
    /\ mountsBefore = NoMounts
    /\ umounts = 0
    /\ steps = <<>>
    /\ state = EmptyState
    /\ stateFile = <<>>
    /\ layerDirs = [d \in Blobs |-> "none"]
    /\ ipc = "idle"
    /\ pull = NoPull
    /\ tasks = <<>>
    /\ completed = <<>>
    /\ before = None
    /\ pullRes = None
    /\ fetched = 0
    /\ mountLog = <<>>
    /\ scratch = {}
    /\ mountRes = None
    /\ overlay = None
    /\ saved = None
    /\ loaded = TRUE
    /\ managerRes = <<"Ok">>
    /\ ops = 0
    /\ imageConfig = None
    /\ runtimeSpec = None
    /\ statusRes = None
    /\ linuxNamespaces = None
    /\ unshareSet = None
    /\ limits = None
    /\ cgroupFs = NewCgroup
    /\ envProcess = None
    /\ environment = None

NextImg ==
    \/ PullBegin
    \/ PullFetch
    \/ LayerCheck
    \/ LayerInsert
    \/ PullFinish
    \/ Pull_Abort
    \/ MountImage
    \/ ManagerNew

SpecImg == Init /\ [][NextImg]_vars

\* the image manager on a host where the process can die while it saves
NextCrash ==
    \/ NextImg
    \/ Pull_Finish_Crash

SpecCrash == Init /\ [][NextCrash]_vars

SpecRun == Init /\ [][NextRun]_vars

\* the container state on its own: creation, status changes, removal
NextState ==
    \/ NewContainer
    \/ StateSetStatus
    \/ State_remove

SpecState == Init /\ [][NextState]_vars

NextNs ==
    \/ NamespacesFrom
    \/ RuntimeNamespaces

SpecNs == Init /\ [][NextNs]_vars

NextCg ==
    \/ CpuApply
    \/ MemoryApply

SpecCg == Init /\ [][NextCg]_vars

NextEnv == EnvironmentFrom

SpecEnv == Init /\ [][NextEnv]_vars

NextCfg == NewRuntimeConfig

SpecCfg == Init /\ [][NextCfg]_vars

-----------------------------------------------------------------------------
(* Launcher and container state: properties *)

\* C1: after any return from Container::run, the kaps cpu cgroup and the kaps
\* memory cgroup created by that run no longer exist.
C1_CgroupsGoneAfterRun == pc = "returned" => cgroups = {}

C3_SpawnFailureIsError == (pc = "returned" /\ ~spawned) => result # <<"Ok">>

\* the teardown of a run, in the order the specification gives
FullTeardown == <<"reap", "cgroups", "umount", "remove">>

\* C18: in every execution of Container::run in which the child was spawned,
\* the child is reaped and then the three cleanup steps all happen, in this
\* order: both cgroups are deleted, the mounts under rootfs are unmounted,
\* the container state directory is removed; a failing step does not skip
\* the later ones.
C18_TeardownAlwaysComplete ==
    (pc \in {"returned", "panicked"} /\ spawned) => steps = FullTeardown

\* C19: whenever Container::run returns ContainerExit(code), code is the
\* non-zero exit code of the child and, before the return, both cgroups were
\* deleted, the mounts were unmounted and the state directory was removed.
C19_ExitAfterCleanup ==
    (pc = "returned" /\ result # None /\ result[1] = "ContainerExit") =>
        /\ code # None
        /\ code[1] # 0
        /\ result[2] = code[1]
        /\ steps = FullTeardown
        /\ cgroups = {}
        /\ hostMounts = NoMounts
        /\ dirs[container[1].id] = Absent

\* C19 witness: a run without mount namespace has returned ContainerExit
\* after its child mounted the three pseudo-filesystems on the host.
C19_Witness ==
    /\ pc = "returned"
    /\ result = <<"ContainerExit", 1>>
    /\ ~container[1].nsMount
    /\ applied = Len(DefaultMounts)

\* C20: when waiting on the spawned child fails, Container::run returns
\* ContainerWaitCommand only after the cgroups were deleted and the mounts
\* under rootfs were cleaned up.
C20_WaitFailureCleansUp ==
    (pc = "returned" /\ result = <<"ContainerWaitCommand">>) =>
        /\ "cgroups" \in {steps[i] : i \in DOMAIN steps}
        /\ "umount" \in {steps[i] : i \in DOMAIN steps}
        /\ cgroups = {}
        /\ hostMounts = mountsBefore

\* a call of Container::new that reaches ContainerState::new for id
NewCall(id) ==
    \E bundle \in Bundles, ns \in BOOLEAN, fail \in {"none", "mkdir", "write"} :
        Container_new(id, bundle, ns, fail)

\* C10: ContainerState::new with an id whose directory exists fails with
\* ContainerExists and leaves the directory and its state.json unchanged; a
\* successful call leaves the directory in place, so a second call with the
\* same id fails.
C10_ContainerExclusive ==
    [][\A id \in ContainerIds :
          NewCall(id) =>
            /\ dirs[id] # Absent =>
                  (newRes' = <<"ContainerExists", id>> /\ dirs' = dirs)
            /\ newRes' = <<"Ok">> => dirs'[id] # Absent]_vars

\* C10 witness: a call was refused for an id whose state.json records a
\* running container.
C10_Witness ==
    \E id \in ContainerIds :
        /\ newRes = <<"ContainerExists", id>>
        /\ dirs[id] # Absent
        /\ dirs[id][1].status = "running"

\* the persisted status of container id; "" when state.json holds no
\* complete document
PersistedStatus(d, id) == d[id][1].status

\* Mounts::cleanup has run in the current call of Container::run: on the
\* spawn failure path, or as the third step of the teardown
CleanupRan ==
    \/ pc = "returned" /\ ~spawned
    \/ \E i \in DOMAIN steps : steps[i] = "umount"

BadSpecCall(id) ==
    \E bundle \in Bundles, ns \in BOOLEAN : Container_new(id, bundle, ns, "spec")

\* C28: Container::new on a bundle whose config.json is missing or not a
\* valid runtime spec fails with OCISpecificationLoad and creates no
\* container state directory for the given id.
C28_InvalidSpecNoState ==
    [][\A id \in ContainerIds :
          BadSpecCall(id) =>
              /\ newRes' = <<"OCISpecificationLoad">>
              /\ dirs' = dirs
              /\ container' = container]_vars

\* C28 witness: Container::new failed with OCISpecificationLoad when no
\* state directory existed, and none exists afterwards.
C28_Witness ==
    /\ newRes = <<"OCISpecificationLoad">>
    /\ \A id \in ContainerIds : dirs[id] = Absent

\* C35: after any return from Container::run, including the spawn-failure
\* path, the container's state directory no longer exists, so a later
\* Container::new with the same id does not fail with ContainerExists.
C35_StateDirGoneAfterRun ==
    pc = "returned" => dirs[container[1].id] = Absent

\* C39: if persisting the running status fails after the child has been
\* spawned, Container::run does not return while the child is still running
\* unsupervised: the child is waited on (or terminated) before run returns.
C39_NoReturnWhileChildRuns ==
    (pc = "returned" /\ spawned) => child # "running"

\* C38: if deleting the cpu or memory cgroup fails after the child has been
\* reaped, Container::run still unmounts the pseudo-filesystems and removes
\* the container state directory, and reports the failure as an error
\* return value rather than aborting before those steps.
C38_CgroupDeleteFailureReported ==
    (child = "reaped" /\ pc \in {"returned", "panicked"}
        /\ cgroups # {}) =>
        /\ pc = "returned"
        /\ result # None /\ result # <<"Ok">>
        /\ \E i \in DOMAIN steps : steps[i] = "umount"
        /\ \E i \in DOMAIN steps : steps[i] = "remove"

\* C36: Mounts::cleanup attempts to unmount every mount of the set under
\* rootfs even when unmounting an earlier one fails: a failed umount of
\* rootfs/dev does not leave rootfs/proc and rootfs/sys without an unmount
\* attempt.
C36_CleanupAttemptsAll ==
    CleanupRan => umounts = Len(DefaultMounts)

\* C37: when one manifest names the same layer digest at two positions, then
\* for every interleaving of the cache check, the unpack and the insertion of
\* the two layer tasks the archive is unpacked at its store path at most once:
\* no two tasks of the pull in flight with the same digest have both unpacked.
C37_UnpackedAtMostOnce ==
    \A i, j \in DOMAIN tasks :
        (/\ i # j
         /\ Catalog[pull.ref].layers[i] = Catalog[pull.ref].layers[j]
         /\ tasks[i].unpacked) => ~tasks[j].unpacked

\* C21: the persisted status of a container follows creating -> running ->
\* removed.  A state.json holding a status records creating with pid 0 or
\* running with the pid of the child; a new state directory starts as
\* creating; a creating document is replaced only once the child has been
\* spawned, and then no status but running is written; running is written
\* only after a successful spawn; a running document never becomes a
\* creating one while its directory exists.
C21_StatusLifecycle ==
    /\ [](\A id \in ContainerIds :
            (dirs[id] # Absent /\ PersistedStatus(dirs, id) # "") =>
                \/ PersistedStatus(dirs, id) = "creating" /\ dirs[id][1].pid = 0
                \/ PersistedStatus(dirs, id) = "running"
                     /\ dirs[id][1].pid = ChildPid)
    /\ [][\A id \in ContainerIds :
            /\ (dirs[id] = Absent /\ dirs'[id] # Absent) =>
                  PersistedStatus(dirs', id) \in {"creating", ""}
            /\ (dirs[id] # Absent /\ PersistedStatus(dirs, id) = "creating"
                   /\ dirs'[id] # dirs[id]) =>
                  /\ pc = "spawned" /\ child = "running"
                  /\ dirs'[id] # Absent
                  /\ PersistedStatus(dirs', id) \in {"running", ""}
            /\ (dirs'[id] # Absent /\ PersistedStatus(dirs', id) = "running"
                   /\ dirs'[id] # dirs[id]) =>
                  (pc = "spawned" /\ child = "running")
            /\ (dirs[id] # Absent /\ PersistedStatus(dirs, id) = "running"
                   /\ dirs'[id] # Absent) =>
                  PersistedStatus(dirs', id) # "creating"]_vars

\* C21 witness: the whole life of a state directory has been seen: the
\* run recorded running after the spawn, tore everything down and removed
\* the directory.
C21_Witness ==
    /\ pc = "returned"
    /\ steps = FullTeardown
    /\ container # NoContainer
    /\ container[1].status = "running"
    /\ dirs[container[1].id] = Absent
    /\ result = <<"Ok">>

\* C22: after set_status(s) returns Ok, the status stored in state.json
\* equals the in-memory status and both equal s, for every status s and
\* every earlier status.
C22_SetStatusPersists ==
    [][\A s \in Statuses, writeOk \in BOOLEAN :
          (State_set_status(s, writeOk) /\ statusRes' = Some(<<"Ok">>)) =>
              /\ container'[1].status = s
              /\ dirs'[container'[1].id] # Absent
              /\ PersistedStatus(dirs', container'[1].id) = s]_vars

\* C22 witness: set_status returned Ok and moved a container back from
\* stopped to created, in memory and in state.json.
C22_Witness ==
    /\ statusRes = Some(<<"Ok">>)
    /\ container # NoContainer
    /\ container[1].status = "created"
    /\ dirs[container[1].id] # Absent
    /\ dirs[container[1].id][1].status = "created"
    /\ \E id \in ContainerIds \ {container[1].id} :
          dirs[id] # Absent /\ dirs[id][1].status = "stopped"

\* the kernel namespace flag of an OCI namespace kind
KernelFlag ==
    [cgroup |-> "Cgroup", ipc |-> "Ipc", mount |-> "Mount", network |-> "Net",
     pid |-> "Pid", uts |-> "Uts", user |-> "User"]

\* C23: for every list of OCI namespace kinds, the unshare set computed by
\* the namespace translator contains exactly the kernel flags of the
\* non-user entries of the list, in list order, and never contains the user
\* namespace.
C23_NamespacesTranslated ==
    unshareSet # None =>
        LET given == IF linuxNamespaces[1] = None THEN <<>>
                     ELSE linuxNamespaces[1][1]
            kept == SelectSeq(given, LAMBDA k : k # "user")
            got == unshareSet[1][2]
        IN /\ got = [i \in 1..Len(kept) |-> KernelFlag[kept[i]]]
           /\ \A i \in DOMAIN got : got[i] # "User"

\* C23 witness: a list with the user namespace between two others, one of
\* them the network namespace, was translated.
C23_Witness ==
    /\ unshareSet # None
    /\ linuxNamespaces = Some(Some(<<"network", "user", "pid">>))
    /\ unshareSet[1][2] = <<"Net", "Pid">>

\* the positions, in the sequence of writes, of the writes to file
WritesTo(file) ==
    {i \in DOMAIN cgroupFs.writes : cgroupFs.writes[i][1] = file}

\* C24: for every supplied CPU or memory limits record, apply writes a
\* supported field to the cgroup if and only if the field is present and
\* non-zero (disable_oom_killer is written whenever it is present), with
\* the value of the field, and a field that is absent or zero leaves the
\* corresponding cgroup setting untouched.
C24_ApplyWritesNonZero ==
    limits # None =>
        LET rec == limits[1][2]
            files == IF limits[1][1] = "cpu" THEN CpuFiles ELSE MemoryFiles
        IN /\ \A f \in DOMAIN files :
                 IF rec[f] # None /\ rec[f][1] # 0
                   THEN /\ Cardinality(WritesTo(files[f])) = 1
                        /\ cgroupFs.files[files[f]] = rec[f][1]
                   ELSE /\ WritesTo(files[f]) = {}
                        /\ cgroupFs.files[files[f]] = KernelDefault
           /\ IF limits[1][1] = "memory" /\ rec.disable_oom_killer # None
                 THEN /\ Cardinality(WritesTo(OomControl)) = 1
                      /\ cgroupFs.files[OomControl] =
                            (IF rec.disable_oom_killer[1] THEN 1 ELSE 0)
                 ELSE /\ WritesTo(OomControl) = {}
                      /\ cgroupFs.files[OomControl] = KernelDefault
           /\ \A file \in CgroupFileNames \ ({files[f] : f \in DOMAIN files}
                                                \cup {OomControl}) :
                 WritesTo(file) = {}

\* C24 witness: a memory record with a zero limit, a non-zero swappiness,
\* no kernel limit and disable_oom_killer false was applied.
C24_Witness ==
    /\ limits # None
    /\ limits[1][1] = "memory"
    /\ limits[1][2].limit = Some(0)
    /\ limits[1][2].swappiness = Some(1)
    /\ limits[1][2].kernel = None
    /\ limits[1][2].disable_oom_killer = Some(FALSE)
    /\ Len(cgroupFs.writes) = 2
    /\ "self" \in cgroupFs.tasks

\* C25: for an image whose layers are L1..Ln in manifest order (L1 the base
\* layer), the lowerdir option of the overlay mount issued by
\* ImageManager::mount lists the layer store paths from topmost to
\* bottommost, that is Ln:...:L1.
C25_LowerdirTopmostFirst ==
    overlay # None =>
        LET image == State_image(state, overlay[1].image)[1]
            n == Len(image.layers)
        IN overlay[1].lowerdir =
             join([i \in 1..n |-> image.layers[n + 1 - i].store_path], ":")

\* the blob of layer i of the manifest is among the blobs that this pull
\* fetched from the registry (client.pull fetches them in manifest order)
BlobFetched(i) == i <= fetched

\* C26: for a layer whose digest is already in the layer map when
\* pull_layers handles it, pull_layers returns the stored metadata for that
\* layer and, for that layer, no blob is fetched from the registry, nothing
\* is decompressed and nothing is unpacked to disk.
C26_CacheHitNoFetch ==
    [][\A i \in DOMAIN tasks :
          (/\ ipc = "tasks"
           /\ tasks[i].st = "check"
           /\ has_layer(state, Catalog[pull.ref].layers[i])
           /\ i \in DOMAIN tasks'
           /\ tasks'[i].st # "check") =>
              /\ tasks'[i].meta =
                    Some(state.layers[Catalog[pull.ref].layers[i]])
              /\ layerDirs' = layerDirs
              /\ ~BlobFetched(i)]_vars

\* the position of the first '=' of the entry var, 0 when it has none
FirstEq(var) ==
    IF \E i \in DOMAIN var : var[i] = "="
      THEN CHOOSE i \in DOMAIN var :
               var[i] = "=" /\ \A j \in 1..(i - 1) : var[j] # "="
      ELSE 0

\* C29: for every process.env list of the runtime spec, the environment
\* given to the child has one pair per entry, in list order, and an entry
\* K=V yields the pair (K, V) where V is the whole text after the first '='
\* of the entry.
C29_EnvironmentPairs ==
    (/\ envProcess # None
     /\ envProcess[1] # None
     /\ envProcess[1][1].env # None
     /\ \A i \in DOMAIN envProcess[1][1].env[1] :
            FirstEq(envProcess[1][1].env[1][i]) # 0) =>
        LET env == envProcess[1][1].env[1]
        IN /\ environment[1][1] = "Ok"
           /\ Len(environment[1][2]) = Len(env)
           /\ \A i \in DOMAIN env :
                 environment[1][2][i] =
                     <<SubSeq(env[i], 1, FirstEq(env[i]) - 1),
                       SubSeq(env[i], FirstEq(env[i]) + 1, Len(env[i]))>>

\* C30: in every execution of ImageManager::mount the state file is written
\* only after the overlay mount has succeeded and bundle_path/config.json
\* has been written; when the overlay mount or the config write fails, the
\* state file is not written.
C30_SaveAfterMountAndConfig ==
    [][\A id \in ImageIds,
         fail \in {"none", "mkdir", "overlay", "config", "save"} :
          Mount(id, fail) =>
              /\ (stateFile' # stateFile \/ saved' # saved) =>
                    /\ overlay' # None
                    /\ overlay'[1].mounted
                    /\ overlay'[1].config
              /\ (overlay' # None
                    /\ (~overlay'[1].mounted \/ ~overlay'[1].config)) =>
                    (stateFile' = stateFile /\ saved' = saved)]_vars

\* C30 witness: a mount stacked the layers of a stored image, failed to
\* write config.json and returned with a state file that does not hold the
\* snapshot index it took.
C30_Witness ==
    /\ mountRes = <<"GenerateOCIConfig", 0>>
    /\ overlay # None
    /\ overlay[1].mounted
    /\ ~overlay[1].config
    /\ state.index > 0
    /\ Load(stateFile).index < state.index

\* the digests that the pull in progress, or the pull that just failed, has
\* inserted in the layer map
InsertedByPull ==
    IF before = None THEN {}
    ELSE DOMAIN state.layers \ DOMAIN before[1].layers

\* C31: at every point of pull_layers, for every interleaving of the layer
\* tasks and every point at which the pull may be aborted, each layer that
\* this pull has inserted in the layer map already had its uncompressed
\* digest checked against diff_ids and its contents fully unpacked at its
\* store path; an abort changes neither the layer map nor the layer
\* directories.
C31_InsertionIsLastStep ==
    /\ [](\A d \in InsertedByPull :
            /\ layerDirs[d] = "full"
            /\ state.layers[d].uncompressed_digest = Gunzip(d)
            /\ state.layers[d].store_path = StorePath(d)
            /\ ipc = "tasks" =>
                  \E i \in DOMAIN tasks :
                      /\ Catalog[pull.ref].layers[i] = d
                      /\ Catalog[pull.ref].diffs[i] = Gunzip(d)
                      /\ tasks[i].st = "done")
    /\ [][Pull_Abort => (state' = state /\ layerDirs' = layerDirs)]_vars

\* C31 witness: a pull has inserted one layer while another of its tasks
\* has unpacked its layer and not yet inserted it; the pull can be aborted
\* here.
C31_Witness ==
    /\ ipc = "tasks"
    /\ InsertedByPull # {}
    /\ \E i \in DOMAIN tasks : tasks[i].st = "insert"

\* C32: over the lifetime of one data directory a snapshot index is used at
\* most once: across any sequence of mount calls, including calls that fail
\* after the index was obtained and calls made by a new ImageManager that
\* reloaded state.json, the snapshotter is never given an index whose
\* scratch directories were already created by an earlier mount.
C32_IndexNeverReused ==
    [][\A id \in ImageIds,
         fail \in {"none", "mkdir", "overlay", "config", "save"} :
          (Mount(id, fail) /\ State_image(state, id) # None) =>
              snapshot_index(state).index \notin scratch]_vars

\* C33: if the process crashes at any point during State::save, the state
\* file afterwards holds either the complete old contents or the complete
\* new contents, never a mix of the two or a truncated document.
C33_SaveCrashSafe ==
    [][Pull_Finish_Crash =>
          LET image == [id |-> pull.id, reference |-> pull.ref,
                        digest |-> pull.ref,
                        layers |-> try_join_all(tasks, completed),
                        config |-> Catalog[pull.ref].diffs]
          IN \/ stateFile' = stateFile
             \/ stateFile' = Serialize(add_image(state, image))]_vars

\* C34: if ImageManager::mount returns an error after the overlay mount
\* succeeded (runtime-config generation, the config.json write or the state
\* save failed), no overlay is left mounted at bundle_path/rootfs.
C34_NoOverlayLeftOnError ==
    (mountRes # None /\ mountRes[1] # "Ok" /\ overlay # None) =>
        ~overlay[1].mounted

-----------------------------------------------------------------------------
(* Runtime spec builder: properties *)

\* C11: for an image configuration with entrypoint E, cmd C, env V and
\* working_dir D, the process of the generated spec has args equal to E
\* followed by C, env equal to V and cwd equal to D; when E followed by C is
\* empty, args is not set and keeps the value of Process::default().
C11_SpecRoundTrip ==
    (/\ runtimeSpec # None
     /\ imageConfig[1] # None
     /\ imageConfig[1][1].config # None
     /\ imageConfig[1][1].config[1].entrypoint # None
     /\ imageConfig[1][1].config[1].cmd # None
     /\ imageConfig[1][1].config[1].env # None
     /\ imageConfig[1][1].config[1].working_dir # None)
        => LET cfg == imageConfig[1][1].config[1]
               E == cfg.entrypoint[1]
               C == cfg.cmd[1]
               process == runtimeSpec[1].process
           IN /\ Len(E) + Len(C) > 0 =>
                    /\ process.args # None
                    /\ Len(process.args[1]) = Len(E) + Len(C)
                    /\ \A i \in 1..Len(E) : process.args[1][i] = E[i]
                    /\ \A i \in 1..Len(C) : process.args[1][Len(E) + i] = C[i]
              /\ Len(E) + Len(C) = 0 => process.args = Process_default.args
              /\ process.env = cfg.env
              /\ process.cwd = cfg.working_dir[1]

\* C11 witness: a spec was generated from a configuration that has a
\* non-empty entrypoint, a non-empty cmd, an env and a working_dir.
C11_Witness ==
    /\ runtimeSpec # None
    /\ imageConfig[1] # None
    /\ imageConfig[1][1].config # None
    /\ imageConfig[1][1].config[1].entrypoint = Some(<<"bash">>)
    /\ imageConfig[1][1].config[1].cmd = Some(<<"-c">>)
    /\ imageConfig[1][1].config[1].env = Some(<<"PATH=/usr/local/sbin">>)
    /\ imageConfig[1][1].config[1].working_dir = Some("/home")
    /\ runtimeSpec[1].process.args = Some(<<"bash", "-c">>)

\* C12: when the image configuration has a created value, the annotation
\* org.opencontainers.image.created of the generated spec equals that value,
\* whatever the labels of the configuration are.
C12_CreatedNotOverridden ==
    (/\ runtimeSpec # None
     /\ imageConfig[1] # None
     /\ imageConfig[1][1].created # None)
        => /\ runtimeSpec[1].annotations # None
           /\ ANNOTATION_CREATED \in DOMAIN runtimeSpec[1].annotations[1]
           /\ runtimeSpec[1].annotations[1][ANNOTATION_CREATED]
                 = imageConfig[1][1].created[1]

-----------------------------------------------------------------------------
(* Image manager and State Store: properties *)

\* C4: for any sequence of pull and mount calls on one ImageManager, no two
\* successful mount calls pass the same snapshot index to the snapshotter.
C4_SnapshotUnique ==
    \A i, j \in DOMAIN mountLog : i # j => mountLog[i] # mountLog[j]

\* C4 witness: one manager has completed two mounts.
C4_Witness == Len(mountLog) >= 2

\* C5: a State saved to the state file and loaded back from it equals the
\* saved State, whatever the file held before the save.
C5_SaveLoadRoundTrip == (loaded /\ saved # None) => state = saved[1]

\* C6: in every reachable state of the State Store, every layer listed by an
\* image of the image map is a key of the layer map.
C6_LayerImageAgreement ==
    \A id \in DOMAIN state.images :
        \A i \in DOMAIN state.images[id].layers :
            state.images[id].layers[i].compressed_digest \in DOMAIN state.layers

\* C6 witness: the store holds an image with layers while a later pull has
\* unpacked a layer that it has not inserted yet.
C6_Witness ==
    /\ \E id \in DOMAIN state.images : Len(state.images[id].layers) >= 1
    /\ ipc = "tasks"
    /\ \E i \in DOMAIN tasks : tasks[i].st = "insert"

\* C7: after a successful pull, the uncompressed digest recorded for layer i
\* of the stored image equals diff_ids[i] of the image configuration, for
\* every i, also for a layer served from the layer cache.
C7_DigestIntegrity ==
    (pullRes # None /\ pullRes[1] = "Ok") =>
        LET im == state.images[pullRes[2]]
        IN \A i \in DOMAIN im.layers :
              im.layers[i].uncompressed_digest = im.config[i]

\* C8: over the pull calls of one ImageManager the set of layer digests of
\* the layer map only grows.
C8_CacheMonotonic ==
    [][loaded' \/ DOMAIN state.layers \subseteq DOMAIN state'.layers]_vars

\* C8 witness: a second pull has added a digest to a non-empty layer map.
C8_Witness == ops >= 2 /\ ~loaded /\ DOMAIN state.layers = Blobs

\* a call of ImageManager::new that reaches State::try_from
LoadCall(fail) == fail \in {"none", "open"} /\ Manager_new(fail)

\* C13 as stated: loading from a file that is absent, empty or not parseable
\* as a State returns the empty state and never an error.
C13_LoadNeverFails ==
    [][\A fail \in {"none", "open"} :
          (LoadCall(fail) /\ Parse(stateFile) = None) =>
              (managerRes' = <<"Ok">> /\ state' = EmptyState)]_vars

\* C13 amended: when the state file can be opened or created, loading from a
\* file that is absent, empty or not parseable as a State returns the empty
\* state; the only error of the load is OpenStateFile, returned when the file
\* cannot be opened or created.
C13_LoadTolerant ==
    [][\A fail \in {"none", "open"} :
          (LoadCall(fail) /\ Parse(stateFile) = None) =>
              IF fail = "none"
                THEN managerRes' = <<"Ok">> /\ state' = EmptyState
                ELSE managerRes' = <<"OpenStateFile">> /\ state' = state]_vars

\* C13 witness: a manager was built from a state file that holds tokens but
\* no State document, and it starts with the empty state.
C13_Witness ==
    /\ loaded
    /\ managerRes = <<"Ok">>
    /\ stateFile # <<>>
    /\ Parse(stateFile) = None
    /\ state = EmptyState

\* C14: for every completion order of the layer tasks, the layers recorded
\* by a successful pull are, position by position, the layers of the manifest:
\* element i is the metadata of the i-th layer; a manifest without layers
\* yields an empty vector.
C14_LayersInManifestOrder ==
    \A id \in DOMAIN state.images :
        LET im == state.images[id]
            m == Catalog[im.reference]
        IN /\ Len(im.layers) = Len(m.layers)
           /\ \A i \in 1..Len(m.layers) :
                 im.layers[i].compressed_digest = m.layers[i]

\* C14 witness: a pull of a manifest with two different layers has succeeded
\* after its second layer task completed before its first.
C14_Witness ==
    /\ pullRes # None
    /\ pullRes[1] = "Ok"
    /\ completed = <<2, 1>>
    /\ Catalog[state.images[pullRes[2]].reference].layers = <<1, 2>>

\* C15: a pull that fails because the uncompressed digest of a layer differs
\* from its diff_ids entry returns UncompressedLayerInvalid and leaves the
\* State Store as it was when the pull was called: no image and no layer of
\* that image has been inserted.
C15_NoPartialInsertion ==
    (pullRes = <<"UncompressedLayerInvalid", 0>>) => state = before[1]

\* a pull that gets past the manifest, the cache test and the parsing of the
\* configuration, for a manifest whose layer count differs from the number of
\* diff_ids
MismatchCall ==
    \E k \in Refs, force \in BOOLEAN, o \in {None} \cup {Some(i) : i \in OverrideIds} :
        /\ Len(Catalog[k].diffs) # Len(Catalog[k].layers)
        /\ force \/ (IF o = None THEN to_uid(k) ELSE o[1]) \notin DOMAIN state.images
        /\ Pull_Begin(k, force, o, "none")

\* C16: when the number of diff_ids of the configuration differs from the
\* number of layers of the manifest, pull fails with InvalidPulledLayers
\* before any layer is fetched or unpacked, and the State Store and the state
\* file are unchanged.
C16_CountMismatchRejected ==
    [][MismatchCall =>
          /\ pullRes' = <<"InvalidPulledLayers", 0>>
          /\ ipc' = "idle"
          /\ fetched' = 0
          /\ layerDirs' = layerDirs
          /\ state' = state
          /\ stateFile' = stateFile]_vars

\* C16 witness: a pull was refused for its layer count while the store
\* already held an image and a saved state file.
C16_Witness ==
    /\ pullRes = <<"InvalidPulledLayers", 0>>
    /\ DOMAIN state.images # {}
    /\ stateFile # <<>>

\* a call of mount with an id that the image map does not hold
UnknownMountCall ==
    \E id \in ImageIds, fail \in {"none", "mkdir", "overlay", "config", "save"} :
        /\ id \notin DOMAIN state.images
        /\ Mount(id, fail)

\* C17: mount with an image id that is not in the image map returns
\* ImageNotFound without consuming a snapshot index, without an overlay mount
\* and without writing the state file.
C17_MountUnknownImage ==
    [][UnknownMountCall =>
          /\ mountRes' = <<"ImageNotFound", 0>>
          /\ state' = state
          /\ scratch' = scratch
          /\ mountLog' = mountLog
          /\ stateFile' = stateFile]_vars

\* C17 witness: ImageNotFound was returned by a manager that holds another
\* image and has already handed out a snapshot index.
C17_Witness ==
    /\ mountRes = <<"ImageNotFound", 0>>
    /\ DOMAIN state.images # {}
    /\ state.index >= 1

\* a pull without force whose image id is in the image map
CacheHitCall(id) ==
    /\ id \in DOMAIN state.images
    /\ \E k \in Refs, o \in {None} \cup {Some(i) : i \in OverrideIds},
          fail \in {"none", "config"} :
        /\ id = IF o = None THEN to_uid(k) ELSE o[1]
        /\ Pull_Begin(k, FALSE, o, fail)

\* C9: a pull without force whose image id is in the image map returns that
\* id once the manifest is fetched: it fetches no layer blob and changes
\* neither the image map nor the layer map.
C9_CachedPull ==
    [][\A id \in ImageIds :
          CacheHitCall(id) =>
            /\ pullRes' = <<"Ok", id>>
            /\ ipc' = "idle"
            /\ fetched' = 0
            /\ state' = state]_vars

\* C9 witness: a pull has returned the id of a stored image that has layers
\* without fetching a layer blob.
C9_Witness ==
    /\ pullRes # None
    /\ pullRes[1] = "Ok"
    /\ fetched = 0
    /\ Len(state.images[pullRes[2]].layers) >= 1

====
